---------------------------- MODULE Spec2Model ----------------------------
(***************************************************************************)
(* A model of the CTVM tomography library (TVAL3 solver): src/src/ctvm.cpp *)
(* and the raster helpers of src/src/ctvm_util.cpp.                        *)
(*                                                                         *)
(* Numbers.  The program computes in IEEE doubles.  A double is modelled   *)
(* as a record [cls, n, d, k]:                                             *)
(*    cls = "fin"  : the real number (n/d) * sqrt(k), d > 0, gcd(n,d) = 1, *)
(*                   k >= 1 square-free (k = 1 for a rational);            *)
(*    cls = "nan", "pinf", "ninf" : NaN, +infinity, -infinity.             *)
(* Arithmetic on finite values is exact (rounding is not modelled); the    *)
(* special values follow IEEE 754: x/0 is an infinity or NaN, NaN and      *)
(* 0*inf propagate, and every ordered comparison with NaN is false.        *)
(* Every divisor the program forms is a sum of squares or a norm, so the   *)
(* zero divisor is +0 and signed zeros are not tracked.                    *)
(* Vectors are sequences (index i of the code is i+1 here); a matrix is a  *)
(* record [rows, cols, data] with data in uBLAS' row-major storage order.  *)
(***************************************************************************)
EXTENDS Integers, Sequences, FiniteSets, TLC

VARIABLES
    call,       \* kernel harness: the last library call and what it returned
    pc,         \* tval3_reconstruction: position in the solve
    build,      \* "checked" (uBLAS index checks on) or "unchecked" (NDEBUG)
    argA,       \* the forward operator passed by the caller
    Sinogram,   \* the l x o sinogram the measurements come from
    A,          \* the matrix A in use by the solve (local of tval3_reconstruction)
    B,          \* measurement vector b
    U,          \* outer iterate u
    Uk,         \* outer u_old
    W,          \* splitting variable w (n x 2)
    NU,         \* multiplier nu (n x 2)
    Lambda,     \* multiplier lambda (m); LAMBDA in the source, a reserved word here
    beta,       \* penalty beta
    mu,         \* penalty mu
    MIN,        \* the n x 3 matrix returned by Alternating_Minimisation
    outerstop,  \* ||U - Uk||_2 of the last outer iteration
    X,          \* the returned image
    am,         \* locals of the running Alternating_Minimisation call
    hist        \* history: counters and the values each update was computed from

vars == <<call, pc, build, argA, Sinogram, A, B, U, Uk, W, NU, Lambda, beta, mu,
          MIN, outerstop, X, am, hist>>

solverVars == <<pc, build, argA, Sinogram, A, B, U, Uk, W, NU, Lambda, beta, mu,
                MIN, outerstop, X, am, hist>>

---------------------------------------------------------------------------
(* Call by value.  C++ evaluates an argument once, before the call; the    *)
(* operators below bind each argument to its value in the same way.        *)

Eval1(F(_), x)             == CHOOSE r \in {F(a) : a \in {x}} : TRUE
Eval2(F(_, _), x, y)       == CHOOSE r \in {F(a, b) : a \in {x}, b \in {y}} : TRUE
Eval3(F(_, _, _), x, y, z) == CHOOSE r \in {F(a, b, c) : a \in {x}, b \in {y}, c \in {z}} : TRUE

\* The sequence f[1], ..., f[n], every element evaluated.
MkSeq(f, n) == SubSeq(f, 1, n)

---------------------------------------------------------------------------
(* Doubles *)

Abs(x) == IF x < 0 THEN -x ELSE x

RECURSIVE GCD(_, _)
GCD(a, b) == IF b = 0 THEN a ELSE GCD(b, a % b)

\* The largest s with s*s dividing k (k >= 1).
SquarePart(k) ==
    LET S == {s \in 1..k : s * s <= k /\ k % (s * s) = 0}
    IN  CHOOSE s \in S : \A t \in S : t <= s

NaN  == [cls |-> "nan",  n |-> 0, d |-> 1, k |-> 1]
PInf == [cls |-> "pinf", n |-> 0, d |-> 1, k |-> 1]
NInf == [cls |-> "ninf", n |-> 0, d |-> 1, k |-> 1]

\* (n/d) * sqrt(k) in normal form; d # 0, k >= 1.
Fin(n, d, k) ==
    IF n = 0 THEN [cls |-> "fin", n |-> 0, d |-> 1, k |-> 1]
    ELSE LET s  == SquarePart(k)
             nn == n * s * (IF d < 0 THEN -1 ELSE 1)
             dd == Abs(d)
             g  == GCD(Abs(nn), dd)
         IN  [cls |-> "fin", n |-> nn \div g, d |-> dd \div g, k |-> k \div (s * s)]

Q(n, d) == Fin(n, d, 1)
Z(n)    == Fin(n, 1, 1)
Zero    == Z(0)

IsFinite(x) == x.cls = "fin"
IsNaN(x)    == x.cls = "nan"
IsZero(x)   == x.cls = "fin" /\ x.n = 0

\* -1, 0, 1; NaN has no sign (callers test IsNaN first).
Sign(x) ==
    CASE x.cls = "pinf" -> 1
      [] x.cls = "ninf" -> -1
      [] x.cls = "fin"  -> (IF x.n > 0 THEN 1 ELSE IF x.n < 0 THEN -1 ELSE 0)

InfOfSign(s) == IF s > 0 THEN PInf ELSE NInf

NegDouble(x) ==
    CASE x.cls = "nan"  -> NaN
      [] x.cls = "pinf" -> NInf
      [] x.cls = "ninf" -> PInf
      [] x.cls = "fin"  -> Fin(-x.n, x.d, x.k)

\* x + y.  Two finite values with different radicands and both non-zero are
\* outside the number representation: the CASE has no arm for them, so a
\* computation that needed one is reported by TLC instead of being guessed.
AddDouble(x, y) ==
    CASE IsNaN(x) \/ IsNaN(y)                 -> NaN
      [] ~IsNaN(x) /\ ~IsNaN(y) /\ ~IsFinite(x) /\ ~IsFinite(y)
                                              -> (IF x.cls = y.cls THEN x ELSE NaN)
      [] ~IsNaN(y) /\ ~IsNaN(x) /\ ~IsFinite(x) /\ IsFinite(y) -> x
      [] ~IsNaN(x) /\ ~IsNaN(y) /\ IsFinite(x) /\ ~IsFinite(y) -> y
      [] IsFinite(x) /\ IsFinite(y) /\ x.n = 0 -> y
      [] IsFinite(x) /\ IsFinite(y) /\ x.n # 0 /\ y.n = 0 -> x
      [] IsFinite(x) /\ IsFinite(y) /\ x.n # 0 /\ y.n # 0 /\ x.k = y.k
                                              -> Fin(x.n * y.d + y.n * x.d, x.d * y.d, x.k)

VNeg(x)    == Eval1(NegDouble, x)
VAdd(x, y) == Eval2(AddDouble, x, y)
VSub(x, y) == VAdd(x, VNeg(y))

MulDouble(x, y) ==
    CASE IsNaN(x) \/ IsNaN(y)       -> NaN
      [] ~IsNaN(x) /\ ~IsNaN(y) /\ (~IsFinite(x) \/ ~IsFinite(y))
                                    -> (IF Sign(x) * Sign(y) = 0 THEN NaN
                                        ELSE InfOfSign(Sign(x) * Sign(y)))
      [] IsFinite(x) /\ IsFinite(y) -> Fin(x.n * y.n, x.d * y.d, x.k * y.k)

DivDouble(x, y) ==
    CASE IsNaN(x) \/ IsNaN(y)       -> NaN
      [] ~IsNaN(x) /\ IsZero(y)     -> (IF Sign(x) = 0 THEN NaN ELSE InfOfSign(Sign(x)))
      [] ~IsNaN(x) /\ ~IsNaN(y) /\ ~IsFinite(y)
                                    -> (IF IsFinite(x) THEN Zero ELSE NaN)
      [] ~IsFinite(x) /\ ~IsNaN(x) /\ IsFinite(y) /\ ~IsZero(y)
                                    -> InfOfSign(Sign(x) * Sign(y))
      [] IsFinite(x) /\ IsFinite(y) /\ ~IsZero(y)
                                    -> Fin(x.n * y.d, x.d * y.n * y.k, x.k * y.k)

\* sqrt; the square root of a non-rational has no representation (no arm).
SqrtDouble(x) ==
    CASE x.cls = "nan"  -> NaN
      [] x.cls = "pinf" -> PInf
      [] x.cls = "ninf" -> NaN
      [] x.cls = "fin" /\ x.n < 0  -> NaN
      [] x.cls = "fin" /\ x.n = 0  -> Zero
      [] x.cls = "fin" /\ x.n > 0 /\ x.k = 1 -> Fin(1, x.d, x.n * x.d)

\* x > y on finite values: by sign, then by the squares n*n*k / (d*d).
FinGt(x, y) ==
    LET sx == Sign(x)
        sy == Sign(y)
        bigger == x.n * x.n * x.k * y.d * y.d > y.n * y.n * y.k * x.d * x.d
        smaller == x.n * x.n * x.k * y.d * y.d < y.n * y.n * y.k * x.d * x.d
    IN  IF sx # sy THEN sx > sy
        ELSE IF sx > 0 THEN bigger
        ELSE IF sx < 0 THEN smaller
        ELSE FALSE

\* The double comparison x > y: false whenever an operand is NaN.
GtDouble(x, y) ==
    CASE IsNaN(x) \/ IsNaN(y)       -> FALSE
      [] ~IsNaN(x) /\ ~IsNaN(y) /\ (~IsFinite(x) \/ ~IsFinite(y))
                                    -> (x.cls # y.cls /\ (x.cls = "pinf" \/ y.cls = "ninf"))
      [] IsFinite(x) /\ IsFinite(y) -> FinGt(x, y)

VMul(x, y) == Eval2(MulDouble, x, y)
VDiv(x, y) == Eval2(DivDouble, x, y)
VSqrt(x)   == Eval1(SqrtDouble, x)
VGt(x, y)  == Eval2(GtDouble, x, y)
VLt(x, y) == VGt(y, x)
LeDouble(x, y) == ~IsNaN(x) /\ ~IsNaN(y) /\ ~GtDouble(x, y)
VLe(x, y) == Eval2(LeDouble, x, y)

---------------------------------------------------------------------------
(* uBLAS vectors and matrices *)

ZeroVector(n) == MkSeq([i \in 1..n |-> Zero], n)

ZeroMatrix(r, c) == [rows |-> r, cols |-> c, data |-> ZeroVector(r * c)]

\* M(i, j) with both indices in range.
At(M, i, j) == M.data[i * M.cols + j + 1]

InRange(M, i, j) == i >= 0 /\ i < M.rows /\ j >= 0 /\ j < M.cols

Put(M, i, j, v) ==
    Eval2(LAMBDA Mv, x : [Mv EXCEPT !.data[i * Mv.cols + j + 1] = x], M, v)

\* Element by element.
ZipWith(F(_, _), a, b) ==
    Eval2(LAMBDA x, y : MkSeq([i \in 1..Len(x) |-> F(x[i], y[i])], Len(x)), a, b)

SubDouble(x, y) == AddDouble(x, NegDouble(y))

VecAdd(a, b)    == ZipWith(AddDouble, a, b)
VecSub(a, b)    == ZipWith(SubDouble, a, b)
VecNeg(a)       == Eval1(LAMBDA x : MkSeq([i \in 1..Len(x) |-> NegDouble(x[i])], Len(x)), a)
VecScale(s, a)  ==
    Eval2(LAMBDA t, x : MkSeq([i \in 1..Len(x) |-> MulDouble(t, x[i])], Len(x)), s, a)
VecDivide(a, s) ==
    Eval2(LAMBDA x, t : MkSeq([i \in 1..Len(x) |-> DivDouble(x[i], t)], Len(x)), a, s)

MatSub(M1, M2) ==
    Eval2(LAMBDA P, R : [P EXCEPT !.data = VecSub(P.data, R.data)], M1, M2)
MatScale(s, M) ==
    Eval2(LAMBDA t, P : [P EXCEPT !.data = VecScale(t, P.data)], s, M)

RECURSIVE SumTo(_, _)
\* s[1] + ... + s[n], accumulated from 0 in index order as uBLAS does.
SumTo(s, n) == IF n = 0 THEN Zero ELSE VAdd(SumTo(s, n - 1), s[n])

Sum(s) == Eval1(LAMBDA x : SumTo(x, Len(x)), s)

inner_prod(a, b) == Sum(ZipWith(MulDouble, a, b))

norm_2(a) == VSqrt(Sum(ZipWith(MulDouble, a, a)))

\* prod(M, v): dense, every entry of a row enters the sum (0 * NaN = NaN).
prod(M, v) ==
    Eval2(LAMBDA Mv, x :
            MkSeq([i \in 1..Mv.rows |->
                    Sum(MkSeq([j \in 1..Mv.cols |-> MulDouble(At(Mv, i - 1, j - 1), x[j])],
                              Mv.cols))],
                  Mv.rows),
          M, v)

trans(M) ==
    Eval1(LAMBDA Mv :
            [rows |-> Mv.cols, cols |-> Mv.rows,
             data |-> MkSeq([x \in 1..(Mv.rows * Mv.cols) |->
                              At(Mv, (x - 1) % Mv.rows, (x - 1) \div Mv.rows)],
                            Mv.rows * Mv.cols)],
          M)

---------------------------------------------------------------------------
(* Raster helpers, src/src/ctvm_util.cpp *)

\* The entries row by row, the order of the matrix storage.
RowByRow(AMatrix) == AMatrix.data

\* Column by column: entry VectorIndex = i + j*rows is AMatrix(i, j).
MatrixToVector(AMatrix) ==
    Eval1(LAMBDA Mv :
            MkSeq([x \in 1..(Mv.rows * Mv.cols) |->
                     At(Mv, (x - 1) % Mv.rows, (x - 1) \div Mv.rows)],
                  Mv.rows * Mv.cols),
          AMatrix)

\* AMatrix(i, j) = AVector(i + j*rows); reads the first rows*cols entries.
VectorToMatrix(AVector, rows, cols) ==
    Eval1(LAMBDA v :
            [rows |-> rows, cols |-> cols,
             data |-> MkSeq([x \in 1..(rows * cols) |->
                              v[((x - 1) \div cols) + ((x - 1) % cols) * rows + 1]],
                            rows * cols)],
          AVector)

---------------------------------------------------------------------------
(* Discrete gradient, src/src/ctvm.cpp *)

\* unsigned long l = sqrt(n): the integer part of the square root.
SqrtFloor(n) == CHOOSE l \in 0..n : l * l <= n /\ (l + 1) * (l + 1) > n

\* The unsigned long division j / pixel of line 43 as a truth value
\* (q = j / pixel; if (q)).  pixel is an unsigned 64-bit value; it is carried
\* here as the integer px with pixel = px mod 2^64, which after the wrapping
\* subtraction pixel - l of line 51 is negative: the value is then at least
\* 2^64 - n, larger than every j < l, and the quotient is 0.
QuotientNonZero(j, px) == IF px > 0 THEN (j \div px) # 0 ELSE FALSE

RECURSIVE FindPixel(_, _, _, _)
\* The search loop of lines 31-53 from outer index i on: <<rows, cols>>.
\* pixel == 0 (line 33) holds of px mod 2^64 exactly when px = 0.
FindPixel(i, px, rc, l) ==
    IF i >= l THEN rc
    ELSE IF px = 0 THEN <<i, 0>>
    ELSE LET hit == {j \in 0..(l - 1) : QuotientNonZero(j, px)}
         IN  FindPixel(i + 1, px - l,
                       IF hit = {} THEN rc
                       ELSE <<i, CHOOSE j \in hit : \A j2 \in hit : j <= j2>>,
                       l)

\* Line 24: exit(EXIT_FAILURE) when the rank is not a pixel of U.
Gradient2DExits(Uv, pixel) == pixel >= Len(Uv)

\* Lines 56-75, by the position found.
GradientAt(Xm, rows, cols, l) ==
    Eval1(LAMBDA here :
            IF cols = l - 1 /\ rows = l - 1
                THEN <<SubDouble(here, here), SubDouble(here, here)>>
            ELSE IF cols = l - 1
                THEN <<SubDouble(here, here), SubDouble(here, At(Xm, rows + 1, cols))>>
            ELSE IF rows = l - 1
                THEN <<SubDouble(here, At(Xm, rows, cols + 1)), SubDouble(here, here)>>
            ELSE <<SubDouble(here, At(Xm, rows, cols + 1)),
                   SubDouble(here, At(Xm, rows + 1, cols))>>,
          At(Xm, rows, cols))

\* Gradient2D for pixel < U.size(): the pair <<Du(0), Du(1)>>.
Gradient2D(Uv, pixel) ==
    Eval3(LAMBDA l, Xm, rc : GradientAt(Xm, rc[1], rc[2], l),
          SqrtFloor(Len(Uv)),
          VectorToMatrix(Uv, SqrtFloor(Len(Uv)), SqrtFloor(Len(Uv))),
          FindPixel(0, pixel, <<0, 0>>, SqrtFloor(Len(Uv))))

\* Gradient2DMatrix: the n x 2 matrix whose row i is Gradient2D(U, i).
Gradient2DMatrix(Uv) ==
    Eval1(LAMBDA v :
            Eval1(LAMBDA G : [rows |-> Len(v), cols |-> 2,
                               data |-> MkSeq([x \in 1..(2 * Len(v)) |->
                                                G[((x - 1) \div 2) + 1][((x - 1) % 2) + 1]],
                                              2 * Len(v))],
                  MkSeq([i \in 1..Len(v) |-> Gradient2D(v, i - 1)], Len(v))),
          Uv)

Unit_Gradient2DMatrixExits(Uv, pixel) == pixel >= Len(Uv)

\* The two stores of lines 130, 135 or 140-141: +1 at (row, pixel), -1 at
\* (row, other).
PlusMinus(Di, row, pixel, other) == Put(Put(Di, row, pixel, Z(1)), row, other, Z(-1))

RECURSIVE UnitLoop(_, _, _, _, _)
\* The loop of lines 125-143 from l on, Di being the matrix built so far.
\* The loop runs for L >= 2 only, so N - 1 - L does not wrap.
UnitLoop(l, Di, pixel, N, L) ==
    IF l >= L THEN Di
    ELSE IF pixel = N - 1 THEN Di
    ELSE IF N - 1 - L < pixel /\ pixel < N - 1
        THEN PlusMinus(Di, 0, pixel, pixel + 1)
    ELSE IF pixel = l * L - 1
        THEN PlusMinus(Di, 1, pixel, pixel + L)
    ELSE Eval1(LAMBDA D2 : UnitLoop(l + 1, D2, pixel, N, L),
               PlusMinus(PlusMinus(Di, 0, pixel, pixel + 1), 1, pixel, pixel + L))

\* Unit_Gradient2DMatrix for pixel < U.size(): the 2 x N matrix Di.
Unit_Gradient2DMatrix(Uv, pixel) ==
    UnitLoop(1, ZeroMatrix(2, Len(Uv)), pixel, Len(Uv), SqrtFloor(Len(Uv)))

---------------------------------------------------------------------------
(* Sub-problem kernels, src/src/ctvm.cpp *)

\* Row i of an n x 2 matrix as the pair copied by the loops "j < 2".
RowPair(M, i) == <<At(M, i, 0), At(M, i, 1)>>

\* x = norm_diff - 1/beta; if (x < 0) x = 0  (lines 197-199).
Threshold(norm_diff, b) ==
    Eval1(LAMBDA x : IF GtDouble(Zero, x) THEN Zero ELSE x,
          VSub(norm_diff, VDiv(Z(1), b)))

\* W = x * (DIFF / norm_diff), line 201.  Nothing guards norm_diff = 0.
Shrink(DIFF, norm_diff, b) == VecScale(Threshold(norm_diff, b), VecDivide(DIFF, norm_diff))

Shrike(DiUk, NUi, b) ==
    Eval1(LAMBDA DIFF : Eval1(LAMBDA norm_diff : Shrink(DIFF, norm_diff, b), norm_2(DIFF)),
          VecSub(DiUk, VecDivide(NUi, b)))

\* The body of the pixel loop for pixel i, lines 222-231:
\* D = D + beta * prod(tDi, -DiU - Wi) - prod(tDi, NUi).
DirectionStep(D, Uv, Wm, NUm, b, i) ==
    Eval2(LAMBDA tDi, DiU_Wi :
            VecSub(VecAdd(D, VecScale(b, prod(tDi, DiU_Wi))), prod(tDi, RowPair(NUm, i))),
          trans(Unit_Gradient2DMatrix(Uv, i)),
          VecSub(VecNeg(Gradient2D(Uv, i)), RowPair(Wm, i)))

RECURSIVE DirectionLoop(_, _, _, _, _)
\* The pixel loop of Onestep_Direction (lines 220-232) over pixels 0..i-1.
DirectionLoop(i, Uv, Wm, NUm, b) ==
    IF i = 0 THEN ZeroVector(Len(Uv))
    ELSE DirectionStep(DirectionLoop(i - 1, Uv, Wm, NUm, b), Uv, Wm, NUm, b, i - 1)

\* Lines 234-237: D + mu * A^T (A U - B) - A^T LAMBDA.
DataTerm(D, Am, Uv, Bv, Lv, m) ==
    Eval2(LAMBDA DIFF, tA : VecSub(VecAdd(D, VecScale(m, prod(tA, DIFF))), prod(tA, Lv)),
          VecSub(prod(Am, Uv), Bv),
          trans(Am))

Onestep_Direction(Am, Uv, Bv, Wm, NUm, Lv, b, m) ==
    DataTerm(DirectionLoop(Len(Uv), Uv, Wm, NUm, b), Am, Uv, Bv, Lv, m)

\* norm_2(v) * norm_2(v), as lines 172, 178, 265, 271 square a norm.
SquareNorm(v) == Eval1(LAMBDA nv : MulDouble(nv, nv), norm_2(v))

\* The body of the pixel loop for pixel i, lines 164-174:
\* L = L + norm_wi - inner_prod(NUi, DIFFi) + (beta/2) * square_norm_diffi.
LagrangianStep(acc, Uv, Wm, NUm, b, i) ==
    Eval2(LAMBDA Wi, DIFFi :
            VAdd(VSub(VAdd(acc, norm_2(Wi)), inner_prod(RowPair(NUm, i), DIFFi)),
                 VMul(VDiv(b, Z(2)), SquareNorm(DIFFi))),
          RowPair(Wm, i),
          VecSub(Gradient2D(Uv, i), RowPair(Wm, i)))

RECURSIVE LagrangianLoop(_, _, _, _, _)
\* The pixel loop of Lagrangian (lines 162-175) over pixels 0..i-1.
LagrangianLoop(i, Uv, Wm, NUm, b) ==
    IF i = 0 THEN Zero
    ELSE LagrangianStep(LagrangianLoop(i - 1, Uv, Wm, NUm, b), Uv, Wm, NUm, b, i - 1)

\* Lines 176-180 and 269-273: acc - inner_prod(LAMBDA, DIFF) + (mu/2)*||DIFF||^2.
FidelityTerm(acc, Am, Uv, Bv, Lv, m) ==
    Eval1(LAMBDA DIFF :
            VAdd(VSub(acc, inner_prod(Lv, DIFF)), VMul(VDiv(m, Z(2)), SquareNorm(DIFF))),
          VecSub(prod(Am, Uv), Bv))

Lagrangian(Am, Uv, Bv, Wm, NUm, Lv, b, m) ==
    FidelityTerm(LagrangianLoop(Len(Uv), Uv, Wm, NUm, b), Am, Uv, Bv, Lv, m)

\* U_Subfunction copies the rows of NU and W with "j < n" (line 259), n the
\* pixel count, into the two-element vectors NUi and Wi.  For n >= 3 the
\* copies with j >= 2 lie outside NUi, Wi and the two columns of NU, W.
U_SubfunctionOutOfRange(n) == n > 2

\* The pair the copy loop leaves in NUi (or Wi) for pixel i: elements j < n
\* are copied; n = 1 never writes element 1, which keeps its initial 0.
CopiedPair(M, i, n) == <<At(M, i, 0), IF n >= 2 THEN At(M, i, 1) ELSE Zero>>

\* The body of the pixel loop for pixel i, lines 258-267, the out-of-range
\* copies taken to touch nothing the function reads:
\* Q = Q - inner_prod(NUi, DIFFk) + (beta/2) * square_norm_diffk.
U_SubfunctionStep(acc, Uv, Wm, NUm, b, i) ==
    Eval1(LAMBDA DIFFk :
            VAdd(VSub(acc, inner_prod(CopiedPair(NUm, i, Len(Uv)), DIFFk)),
                 VMul(VDiv(b, Z(2)), SquareNorm(DIFFk))),
          VecSub(Gradient2D(Uv, i), CopiedPair(Wm, i, Len(Uv))))

RECURSIVE U_SubfunctionLoop(_, _, _, _, _)
\* The pixel loop of U_Subfunction (lines 256-268) over pixels 0..i-1.
U_SubfunctionLoop(i, Uv, Wm, NUm, b) ==
    IF i = 0 THEN Zero
    ELSE U_SubfunctionStep(U_SubfunctionLoop(i - 1, Uv, Wm, NUm, b), Uv, Wm, NUm, b, i - 1)

U_Subfunction(Am, Uv, Bv, Wm, NUm, Lv, b, m) ==
    FidelityTerm(U_SubfunctionLoop(Len(Uv), Uv, Wm, NUm, b), Am, Uv, Bv, Lv, m)

---------------------------------------------------------------------------
(* Kernel harness: one library function is called, once, on arguments     *)
(* drawn from bounded sets; call records the arguments with what the call  *)
(* returned.  The functions are pure: a call leaves nothing behind that a  *)
(* later call could read.                                                  *)

MaxLen    == 5      \* longest vector handed to the gradient functions
MaxEntry  == 2      \* vector entries are 0..MaxEntry
MaxTenths == 8      \* shrinkage inputs are multiples of 1/10 up to MaxTenths/10

RECURSIVE Vectors(_, _)
\* All vectors of length n with entries in S.
Vectors(n, S) ==
    IF n = 0 THEN {<<>>}
    ELSE {Append(v, e) : v \in Vectors(n - 1, S), e \in S}

IntVals == {Z(e) : e \in 0..MaxEntry}

\* Arguments U of the gradient functions: lengths 1..MaxLen, square or not.
KernelVectors == UNION {Vectors(n, IntVals) : n \in 1..MaxLen}

Tenths == {Q(a, 10) : a \in (-MaxTenths)..MaxTenths}

\* Arguments DiUk, NUi and beta of Shrike.
ShrikePairs == Vectors(2, Tenths)
ShrikeMultipliers == {<<Z(0), Z(0)>>, <<Z(1), Z(0)>>, <<Z(0), Z(-1)>>, <<Q(6, 10), Q(8, 10)>>}
KernelBetas == {Z(1), Z(2)}

\* Arguments of Onestep_Direction: images of side 1..floor(sqrt(MaxLen)) with
\* pixels 0 or 1, constant fields W and NU, one measurement.
Bits == {Z(0), Z(1)}
ConstMatrix(r, c, v) == [rows |-> r, cols |-> c, data |-> MkSeq([x \in 1..(r * c) |-> v], r * c)]
DirectionSizes == {k * k : k \in 1..SqrtFloor(MaxLen)}
DirectionFields(n) == {ConstMatrix(n, 2, v) : v \in Bits}
DirectionOperators(n) == {ConstMatrix(1, n, v) : v \in Bits}

NoCall == [fn |-> "none"]

CallGradient2D ==
    /\ call = NoCall
    /\ \E Uv \in KernelVectors : \E pixel \in 0..Len(Uv) :
          call' = [fn |-> "Gradient2D", U |-> Uv, pixel |-> pixel,
                   exits |-> Gradient2DExits(Uv, pixel),
                   ret |-> IF Gradient2DExits(Uv, pixel) THEN <<>> ELSE Gradient2D(Uv, pixel)]
    /\ UNCHANGED solverVars

CallGradient2DMatrix ==
    /\ call = NoCall
    /\ \E Uv \in KernelVectors :
          call' = [fn |-> "Gradient2DMatrix", U |-> Uv, ret |-> Gradient2DMatrix(Uv)]
    /\ UNCHANGED solverVars

CallUnit_Gradient2DMatrix ==
    /\ call = NoCall
    /\ \E Uv \in KernelVectors : \E pixel \in 0..Len(Uv) :
          call' = [fn |-> "Unit_Gradient2DMatrix", U |-> Uv, pixel |-> pixel,
                   exits |-> Unit_Gradient2DMatrixExits(Uv, pixel),
                   ret |-> IF Unit_Gradient2DMatrixExits(Uv, pixel) THEN ZeroMatrix(0, 0)
                           ELSE Unit_Gradient2DMatrix(Uv, pixel)]
    /\ UNCHANGED solverVars

\* The arguments are those whose ||DiUk - NUi/beta|| is rational, so that the
\* result is a value of the number representation.
CallShrike ==
    /\ call = NoCall
    /\ \E DiUk \in ShrikePairs : \E NUi \in ShrikeMultipliers : \E b \in KernelBetas :
          /\ norm_2(VecSub(DiUk, VecDivide(NUi, b))).k = 1
          /\ call' = [fn |-> "Shrike", DiUk |-> DiUk, NUi |-> NUi, beta |-> b,
                      ret |-> Shrike(DiUk, NUi, b)]
    /\ UNCHANGED solverVars

CallOnestep_Direction ==
    /\ call = NoCall
    /\ \E n \in DirectionSizes : \E Uv \in Vectors(n, Bits) :
       \E Wm \in DirectionFields(n) : \E NUm \in DirectionFields(n) :
       \E Am \in DirectionOperators(n) :
          call' = [fn |-> "Onestep_Direction", A |-> Am, U |-> Uv, B |-> <<Z(1)>>,
                   W |-> Wm, NU |-> NUm, Lambda |-> <<Z(1)>>, beta |-> Z(2), mu |-> Z(3),
                   ret |-> Onestep_Direction(Am, Uv, <<Z(1)>>, Wm, NUm, <<Z(1)>>, Z(2), Z(3))]
    /\ UNCHANGED solverVars

\* One call of U_Subfunction; outOfRange records whether the copy loop of
\* lines 259-263 left the two-element vectors.
CallU_Subfunction ==
    /\ call = NoCall
    /\ \E n \in DirectionSizes : \E Uv \in Vectors(n, Bits) :
       \E Wm \in DirectionFields(n) : \E NUm \in DirectionFields(n) :
       \E Am \in DirectionOperators(n) :
          call' = [fn |-> "U_Subfunction", A |-> Am, U |-> Uv, B |-> <<Z(1)>>,
                   W |-> Wm, NU |-> NUm, Lambda |-> <<Z(1)>>, beta |-> Z(2), mu |-> Z(3),
                   outOfRange |-> U_SubfunctionOutOfRange(n),
                   ret |-> U_Subfunction(Am, Uv, <<Z(1)>>, Wm, NUm, <<Z(1)>>, Z(2), Z(3))]
    /\ UNCHANGED solverVars

MaxUnitSide == 3   \* square images of side 2..MaxUnitSide for Unit_Gradient2DMatrix

\* Constant images of L x L pixels; the unit matrix does not read the values.
SquareImages == {ConstMatrix(L, L, v).data : L \in 2..MaxUnitSide, v \in Bits}

\* One call of Unit_Gradient2DMatrix on a square image, for every pixel.
CallUnit_Gradient2DMatrixSquare ==
    /\ call = NoCall
    /\ \E Uv \in SquareImages : \E pixel \in 0..(Len(Uv) - 1) :
          call' = [fn |-> "Unit_Gradient2DMatrix", U |-> Uv, pixel |-> pixel,
                   exits |-> Unit_Gradient2DMatrixExits(Uv, pixel),
                   ret |-> Unit_Gradient2DMatrix(Uv, pixel)]
    /\ UNCHANGED solverVars

---------------------------------------------------------------------------
(* tval3_reconstruction and Alternating_Minimisation, src/src/ctvm.cpp *)

MaxSide      == 2   \* sinograms have 0..MaxSide rows (the image side l)
MaxAngles    == 1   \* and 0..MaxAngles columns (tilt angles)
MaxSeed      == 3   \* seeds of the random generator are 0..MaxSeed
MaxOuter     == 3   \* the model follows at most this many outer iterations,
MaxInner     == 3   \* inner iterations of one minimisation,
MaxBacktrack == 3   \* and passes of one backtracking loop

\* Lines 369-373 and 287-294.
mu0   == Z(3)
beta0 == Fin(1, 1, 2)       \* sqrt(2)
coef  == Q(105, 100)
tol   == Q(1, 100)
delta == Q(5, 10)
rho   == Q(5, 10)
eta   == Q(5, 10)

\* The k-th draw of the normal generator seeded with seed: a fixed function of
\* the seed, as for mt19937 (the values stand for draws of N(0,1)).
RandNormValue(seed, k) == Q(((seed * 7 + k * 3 + seed * k) % 5) - 2, 2)

\* CreateRandomMatrix: entries drawn row by row.  The seed is the clock's
\* millisecond count at the call.
CreateRandomMatrix(rows, cols, seed) ==
    [rows |-> rows, cols |-> cols,
     data |-> MkSeq([x \in 1..(rows * cols) |-> RandNormValue(seed, x)], rows * cols)]

\* Matrices with pixel values 0 or 1.
BinaryMatrices(r, c) ==
    {[rows |-> r, cols |-> c, data |-> v] : v \in Vectors(r * c, {Z(0), Z(1)})}

Sinograms == UNION {BinaryMatrices(l, o) : l \in 0..MaxSide, o \in 0..MaxAngles}

\* Forward operators a caller passes for an l x o sinogram: m x n matrices.
Eye(m, n) ==
    [rows |-> m, cols |-> n,
     data |-> MkSeq([x \in 1..(m * n) |->
                      IF (x - 1) \div n = (x - 1) % n THEN Z(1) ELSE Z(0)], m * n)]

CallerMatrices(m, n) == {Eye(m, n), ZeroMatrix(m, n)}

\* Sizes, lines 364-367.
SideL == Sinogram.rows
NumM  == Sinogram.rows * Sinogram.cols
NumN  == Sinogram.rows * Sinogram.rows

AmIdle ==
    [W |-> ZeroMatrix(0, 0), Uk |-> <<>>, Uk_1 |-> <<>>, C |-> Zero, Pk |-> Z(1),
     alpha |-> Zero, Dk |-> <<>>, Qk |-> Zero, armijo_tol |-> Zero, innerstop |-> Zero]

HistInit ==
    [outer |-> 0, inner |-> 0, bt |-> 0, order |-> <<>>,
     betaAtStart |-> beta0, muAtStart |-> mu0,
     ret    |-> [U |-> <<>>, W |-> ZeroMatrix(0, 0)],
     nuFrom |-> [NU |-> ZeroMatrix(0, 0), beta |-> Zero],
     lambdaFrom |-> [Lambda |-> <<>>, mu |-> Zero],
     growthFrom |-> [beta |-> Zero, mu |-> Zero],
     refFrom |-> [C |-> Zero, Pk |-> Z(1), Qk1 |-> Zero]]

\* The state at entry of tval3_reconstruction with the locals of lines
\* 369-385 constructed; A still names the caller's matrix.
SolverInit ==
    /\ pc = "entry"
    /\ build \in {"checked", "unchecked"}
    /\ Sinogram \in Sinograms
    /\ argA \in CallerMatrices(NumM, NumN)
    /\ A = argA
    /\ B = ZeroVector(NumM)
    /\ U = ZeroVector(NumN)
    /\ Uk = ZeroVector(NumN)
    /\ W = ZeroMatrix(NumN, 2)
    /\ NU = ZeroMatrix(NumN, 2)
    /\ Lambda = ZeroVector(NumM)
    /\ beta = beta0
    /\ mu = mu0
    /\ MIN = ZeroMatrix(NumN, 3)
    /\ outerstop = Zero
    /\ X = ZeroMatrix(SideL, SideL)
    /\ am = AmIdle
    /\ hist = HistInit

\* Lines 378, 387, 388: the local A replaces the caller's and is filled with
\* random entries; B is the rasterized sinogram.
Setup ==
    /\ pc = "entry"
    /\ \E seed \in 0..MaxSeed : A' = CreateRandomMatrix(NumM, NumN, seed)
    /\ B' = MatrixToVector(Sinogram)
    /\ pc' = "outer"
    /\ UNCHANGED <<call, build, argA, Sinogram, U, Uk, W, NU, Lambda, beta, mu,
                   MIN, outerstop, X, am, hist>>

\* The outer iteration with the penalty growth ahead of the multiplier
\* updates: the order the method forbids.
GrowthFirstOrder == <<"w_sub", "growth", "nu", "lambda", "test">>

\* The steps of one outer iteration in program order (lines 394-408): the
\* inner minimisation, the two multiplier updates, the penalty growth, the
\* stopping test.
OuterOrder == <<"w_sub", "nu", "lambda", "growth", "test">>

\* The step that follows step s in the outer loop body.
StepAfter(s) ==
    LET k == CHOOSE x \in 1..Len(OuterOrder) : OuterOrder[x] = s
    IN  OuterOrder[k + 1]

\* Lines 392-394 and 286-299: Wk = W, Uk = U, and the call of
\* Alternating_Minimisation up to its loop (C, Pk, Uk_1, Uk).
OuterBegin ==
    /\ pc = "outer"
    /\ hist.outer < MaxOuter
    /\ Uk' = U
    /\ am' = [AmIdle EXCEPT !.W = W, !.Uk = U, !.Uk_1 = ZeroVector(NumN),
                            !.C = Lagrangian(A, U, B, W, NU, Lambda, beta, mu),
                            !.Pk = Z(1)]
    /\ hist' = [hist EXCEPT !.inner = 0, !.bt = 0, !.order = <<>>,
                            !.betaAtStart = beta, !.muAtStart = mu]
    /\ pc' = OuterOrder[1]
    /\ UNCHANGED <<call, build, argA, Sinogram, A, B, U, W, NU, Lambda, beta, mu,
                   MIN, outerstop, X>>

\* One store W(j, i) = v of line 311 into the n x 2 matrix st.W.  With the
\* index checks of a checked build the store throws bad_index unless j is a
\* row and i a column.  Unchecked, it writes the storage element j*2 + i;
\* past the end of the storage ("overrun") it writes outside the matrix.
StoreAt(st, j, i, v) ==
    IF st.fault # "none" THEN st
    ELSE IF build = "checked"
        THEN IF InRange(st.W, j, i) THEN [st EXCEPT !.W = Put(st.W, j, i, v)]
             ELSE [st EXCEPT !.fault = "bad_index"]
    ELSE IF j * st.W.cols + i < st.W.rows * st.W.cols
        THEN [st EXCEPT !.W.data[j * st.W.cols + i + 1] = v]
    ELSE [st EXCEPT !.fault = "overrun"]

StoreTransposed(st, j, i, v) == Eval2(LAMBDA s, x : StoreAt(s, j, i, x), st, v)

\* The body of the w sub-problem loop for pixel i, lines 305-312.  NUi is
\* zeroed per pixel and filled inside the j loop, so the Shrike call of
\* j = 0 sees NUi = (NU(i,0), 0) and that of j = 1 the whole pair.
WSubStep(st, Ukv, i) ==
    Eval1(LAMBDA DiUk :
            StoreTransposed(
                StoreTransposed(st, 0, i, Shrike(DiUk, <<At(NU, i, 0), Zero>>, beta)[1]),
                1, i, Shrike(DiUk, RowPair(NU, i), beta)[2]),
          Gradient2D(Ukv, i))

RECURSIVE WSubLoop(_, _, _)
\* The w sub-problem pass (lines 303-313) over pixels 0..i-1.
WSubLoop(i, Wm, Ukv) ==
    IF i = 0 THEN [W |-> Wm, fault |-> "none"]
    ELSE WSubStep(WSubLoop(i - 1, Wm, Ukv), Ukv, i - 1)

\* What follows a fault of the running call: a thrown bad_index is not caught
\* (the program terminates); a write or read outside an object's storage is
\* undefined, the run either crashes or goes on.
FaultOutcomes(fault) ==
    CASE fault = "none"      -> {"continue"}
      [] fault = "bad_index" -> {"abort"}
      [] fault = "overrun"   -> {"abort", "continue"}

\* The fault of one U_Subfunction call on a vector of n pixels.
U_SubfunctionFault(n) ==
    IF U_SubfunctionOutOfRange(n)
        THEN (IF build = "checked" THEN "bad_index" ELSE "overrun")
    ELSE "none"

WSubproblem ==
    /\ pc = "w_sub"
    /\ \E st \in {WSubLoop(NumN, am.W, am.Uk)} : \E out \in FaultOutcomes(st.fault) :
          /\ am' = [am EXCEPT !.W = st.W]
          /\ pc' = IF out = "abort" THEN "aborted" ELSE "u_sub"
    /\ hist' = [hist EXCEPT !.order = Append(@, "w")]
    /\ UNCHANGED <<call, build, argA, Sinogram, A, B, U, Uk, W, NU, Lambda, beta, mu,
                   MIN, outerstop, X>>

\* Line 321.
StepLengthOf(Sk, Yk) == VDiv(inner_prod(Sk, Yk), inner_prod(Yk, Yk))

\* Lines 315-321: Sk, Dk_1, Dk, Yk and the step length.
StepLength ==
    /\ pc = "u_sub"
    /\ \E Sk   \in {VecSub(am.Uk, am.Uk_1)} :
       \E Dk_1 \in {Onestep_Direction(A, am.Uk_1, B, am.W, NU, Lambda, beta, mu)} :
       \E Dk   \in {Onestep_Direction(A, am.Uk, B, am.W, NU, Lambda, beta, mu)} :
       \E Yk   \in {VecSub(Dk, Dk_1)} :
          am' = [am EXCEPT !.Dk = Dk, !.alpha = StepLengthOf(Sk, Yk)]
    /\ hist' = [hist EXCEPT !.bt = 0]
    /\ pc' = "backtrack"
    /\ UNCHANGED <<call, build, argA, Sinogram, A, B, U, Uk, W, NU, Lambda, beta, mu,
                   MIN, outerstop, X>>

\* Line 328: C - delta*alpha*inner_prod(Dk, Dk).
ArmijoTol(Cv, alphav, Dk) == VSub(Cv, VMul(VMul(delta, alphav), inner_prod(Dk, Dk)))

\* One pass of the backtracking loop, lines 322-329.
Backtrack ==
    /\ pc = "backtrack"
    /\ hist.bt < MaxBacktrack
    /\ \E alpha1     \in {VMul(rho, am.alpha)} :
       \E Uk_alphaD  \in {VecSub(am.Uk, VecScale(alpha1, am.Dk))} :
       \E Qk         \in {U_Subfunction(A, Uk_alphaD, B, am.W, NU, Lambda, beta, mu)} :
       \E armijo_tol \in {ArmijoTol(am.C, alpha1, am.Dk)} :
       \E out \in FaultOutcomes(U_SubfunctionFault(NumN)) :
          /\ am' = [am EXCEPT !.alpha = alpha1, !.Qk = Qk, !.armijo_tol = armijo_tol]
          /\ pc' = IF out = "abort" THEN "aborted"
                   ELSE IF VGt(Qk, armijo_tol) THEN "backtrack" ELSE "accept"
    /\ hist' = [hist EXCEPT !.bt = @ + 1]
    /\ UNCHANGED <<call, build, argA, Sinogram, A, B, U, Uk, W, NU, Lambda, beta, mu,
                   MIN, outerstop, X>>

\* Lines 335-337: Pk1 = eta*Pk + 1 and C = (eta*Pk*C + Qk1)/Pk1.
NextPk(Pkv) == VAdd(VMul(eta, Pkv), Z(1))
NextC(Pkv, Cv, Qk1) == VDiv(VAdd(VMul(VMul(eta, Pkv), Cv), Qk1), NextPk(Pkv))

\* Lines 331-342: the accepted iterate, the reference value, the inner test.
Accept ==
    /\ pc = "accept"
    /\ hist.inner < MaxInner
    /\ \E Uk1       \in {VecSub(am.Uk, VecScale(am.alpha, am.Dk))} :
       \E innerstop \in {norm_2(VecSub(Uk1, am.Uk))} :
       \E Qk1       \in {U_Subfunction(A, Uk1, B, am.W, NU, Lambda, beta, mu)} :
       \E out \in FaultOutcomes(U_SubfunctionFault(NumN)) :
          /\ am' = [am EXCEPT !.innerstop = innerstop, !.C = NextC(am.Pk, am.C, Qk1),
                              !.Pk = NextPk(am.Pk), !.Uk_1 = am.Uk, !.Uk = Uk1]
          /\ pc' = IF out = "abort" THEN "aborted"
                   ELSE IF VGt(innerstop, tol) THEN "w_sub" ELSE "am_return"
    /\ hist' = [hist EXCEPT !.inner = @ + 1, !.order = Append(@, "u"),
                            !.refFrom = [C |-> am.C, Pk |-> am.Pk,
                                         Qk1 |-> U_Subfunction(A, am'.Uk, B, am.W, NU, Lambda,
                                                               beta, mu)]]
    /\ UNCHANGED <<call, build, argA, Sinogram, A, B, U, Uk, W, NU, Lambda, beta, mu,
                   MIN, outerstop, X>>

\* Lines 344-350: AL_MIN, columns 0 and 1 from W and column 2 from Uk.
AL_MIN ==
    [rows |-> NumN, cols |-> 3,
     data |-> MkSeq([x \in 1..(3 * NumN) |->
                      IF (x - 1) % 3 = 2 THEN am.Uk[((x - 1) \div 3) + 1]
                      ELSE At(am.W, (x - 1) \div 3, (x - 1) % 3)],
                    3 * NumN)]

\* The return of Alternating_Minimisation and lines 394-400.
AMReturn ==
    /\ pc = "am_return"
    /\ MIN' = AL_MIN
    /\ W' = [rows |-> NumN, cols |-> 2,
             data |-> MkSeq([x \in 1..(2 * NumN) |-> At(MIN', (x - 1) \div 2, (x - 1) % 2)],
                            2 * NumN)]
    /\ U' = MkSeq([i \in 1..NumN |-> At(MIN', i - 1, 2)], NumN)
    /\ hist' = [hist EXCEPT !.ret = [U |-> U', W |-> W']]
    /\ pc' = StepAfter("w_sub")
    /\ UNCHANGED <<call, build, argA, Sinogram, A, B, Uk, NU, Lambda, beta, mu,
                   outerstop, X, am>>

\* Lines 401-402.
NuUpdate ==
    /\ pc = "nu"
    /\ NU' = MatSub(NU, MatScale(beta, MatSub(Gradient2DMatrix(U), W)))
    /\ hist' = [hist EXCEPT !.order = Append(@, "nu"),
                            !.nuFrom = [NU |-> NU, beta |-> beta]]
    /\ pc' = StepAfter("nu")
    /\ UNCHANGED <<call, build, argA, Sinogram, A, B, U, Uk, W, Lambda, beta, mu,
                   MIN, outerstop, X, am>>

\* Line 403.
LambdaUpdate ==
    /\ pc = "lambda"
    /\ Lambda' = VecSub(Lambda, VecScale(mu, VecSub(prod(A, U), B)))
    /\ hist' = [hist EXCEPT !.order = Append(@, "lambda"),
                            !.lambdaFrom = [Lambda |-> Lambda, mu |-> mu]]
    /\ pc' = StepAfter("lambda")
    /\ UNCHANGED <<call, build, argA, Sinogram, A, B, U, Uk, W, NU, beta, mu,
                   MIN, outerstop, X, am>>

\* mu coupled to the beta of before the growth.
MuFromOldBeta(b, m) == VMul(coef, b)

\* Lines 405-406: beta = coef*beta; mu = coef*beta, the second from the new beta.
GrownBeta(b, m) == VMul(coef, b)
GrownMu(b, m)   == VMul(coef, GrownBeta(b, m))

PenaltyGrowth ==
    /\ pc = "growth"
    /\ beta' = GrownBeta(beta, mu)
    /\ mu' = GrownMu(beta, mu)
    /\ hist' = [hist EXCEPT !.order = Append(@, "growth"),
                            !.growthFrom = [beta |-> beta, mu |-> mu]]
    /\ pc' = StepAfter("growth")
    /\ UNCHANGED <<call, build, argA, Sinogram, A, B, U, Uk, W, NU, Lambda,
                   MIN, outerstop, X, am>>

\* Lines 408-409: the outer stopping test.
OuterTest ==
    /\ pc = "test"
    /\ outerstop' = norm_2(VecSub(U, Uk))
    /\ pc' = IF VGt(outerstop', tol) THEN "outer" ELSE "finish"
    /\ hist' = [hist EXCEPT !.outer = @ + 1]
    /\ UNCHANGED <<call, build, argA, Sinogram, A, B, U, Uk, W, NU, Lambda, beta, mu,
                   MIN, X, am>>

\* Lines 411-412.
Return ==
    /\ pc = "finish"
    /\ X' = VectorToMatrix(U, SideL, SideL)
    /\ pc' = "done"
    /\ UNCHANGED <<call, build, argA, Sinogram, A, B, U, Uk, W, NU, Lambda, beta, mu,
                   MIN, outerstop, am, hist>>

Init == call = NoCall /\ SolverInit

Next ==
    \/ Setup
    \/ OuterBegin
    \/ WSubproblem
    \/ StepLength
    \/ Backtrack
    \/ Accept
    \/ AMReturn
    \/ NuUpdate
    \/ LambdaUpdate
    \/ PenaltyGrowth
    \/ OuterTest
    \/ Return

\* A solve: tval3_reconstruction from entry to return.
Spec == Init /\ [][Next]_vars

\* No solve is running while the library functions are called on their own.
KernelInit ==
    /\ call = NoCall
    /\ pc = "idle"
    /\ build = "unchecked"
    /\ Sinogram = ZeroMatrix(0, 0)
    /\ argA = ZeroMatrix(0, 0)
    /\ A = argA
    /\ B = <<>>
    /\ U = <<>>
    /\ Uk = <<>>
    /\ W = ZeroMatrix(0, 2)
    /\ NU = ZeroMatrix(0, 2)
    /\ Lambda = <<>>
    /\ beta = beta0
    /\ mu = mu0
    /\ MIN = ZeroMatrix(0, 3)
    /\ outerstop = Zero
    /\ X = ZeroMatrix(0, 0)
    /\ am = AmIdle
    /\ hist = HistInit

KernelNext ==
    \/ CallGradient2D
    \/ CallGradient2DMatrix
    \/ CallUnit_Gradient2DMatrix
    \/ CallShrike
    \/ CallOnestep_Direction
    \/ CallU_Subfunction
    \/ CallUnit_Gradient2DMatrixSquare

\* The library functions called one at a time, in any order.
KernelSpec == KernelInit /\ [][KernelNext]_vars

---------------------------------------------------------------------------
(* The method as spec.md defines it, for comparison with the code.         *)

IsSquare(n) == SqrtFloor(n) * SqrtFloor(n) = n

\* spec.md 4.1: pixel i = r + c*L; h = u(r,c) - u(r,c+1), 0 in the last
\* column; v = u(r,c) - u(r+1,c), 0 in the last row.
SpecGradient(Uv, i) ==
    LET L == SqrtFloor(Len(Uv))
        r == i % L
        c == i \div L
    IN  <<IF c < L - 1 THEN SubDouble(Uv[i + 1], Uv[i + L + 1]) ELSE Zero,
          IF r < L - 1 THEN SubDouble(Uv[i + 1], Uv[i + 2]) ELSE Zero>>

\* The field Du as the sequence of the pairs D_i u.
SpecGradientField(Uv) == [i \in 1..Len(Uv) |-> SpecGradient(Uv, i - 1)]

\* The coefficient of u_j in the component k (1: h, 2: v) of D_i u.
SpecCoefficient(L, i, k, j) ==
    LET inside == IF k = 1 THEN (i \div L) < L - 1 ELSE (i % L) < L - 1
        other  == IF k = 1 THEN i + L ELSE i + 1
    IN  IF ~inside THEN 0 ELSE IF j = i THEN 1 ELSE IF j = other THEN -1 ELSE 0

\* D^T g for a field g of pairs: (D^T g)_j = Sum_i Sum_k coefficient * g_i,k.
SpecTransposedGradient(g) ==
    LET N == Len(g)
        L == SqrtFloor(N)
    IN  [j \in 1..N |->
           Sum([x \in 1..(2 * N) |->
                  MulDouble(Z(SpecCoefficient(L, (x - 1) \div 2, ((x - 1) % 2) + 1, j - 1)),
                            g[((x - 1) \div 2) + 1][((x - 1) % 2) + 1])])]

\* The rows of an n x 2 matrix as a field of pairs.
FieldOf(M) == [i \in 1..M.rows |-> RowPair(M, i - 1)]

\* spec.md 4.4: g(u) = beta D^T(Du - w) - D^T nu + mu A^T(Au - b) - A^T lambda.
SpecDirection(Am, Uv, Bv, Wm, NUm, Lv, b, m) ==
    LET Du_w == [i \in 1..Len(Uv) |-> VecSub(SpecGradientField(Uv)[i], FieldOf(Wm)[i])]
    IN  VecSub(VecAdd(VecSub(VecScale(b, SpecTransposedGradient(Du_w)),
                             SpecTransposedGradient(FieldOf(NUm))),
                      VecScale(m, prod(trans(Am), VecSub(prod(Am, Uv), Bv)))),
               prod(trans(Am), Lv))

\* spec.md 4.3: 0 when ||g|| <= 1/beta (||g|| = 0 included), otherwise
\* (||g|| - 1/beta) g / ||g||, with g = DiU - NUi/beta.
SpecShrink(DiU, NUi, b) ==
    LET g == VecSub(DiU, VecDivide(NUi, b))
    IN  IF LeDouble(norm_2(g), VDiv(Z(1), b)) THEN <<Zero, Zero>>
        ELSE VecScale(VSub(norm_2(g), VDiv(Z(1), b)), VecDivide(g, norm_2(g)))

\* spec.md 4.6: the default cap on the number of outer iterations.
max_outer_iters == 100

---------------------------------------------------------------------------
(* Properties *)

\* C1: for a vector U of square length N = L*L and a pixel i < N,
\* Gradient2D(U, i) returns the column-major forward differences (h, v) of
\* pixel i = r + c*L, and Gradient2DMatrix(U) has that pair in every row i.
C1_ColumnMajorGradient ==
    /\ (call.fn = "Gradient2D" /\ ~call.exits /\ IsSquare(Len(call.U)))
          => call.ret = SpecGradient(call.U, call.pixel)
    /\ (call.fn = "Gradient2DMatrix" /\ IsSquare(Len(call.U)))
          => \A i \in 0..(Len(call.U) - 1) : RowPair(call.ret, i) = SpecGradient(call.U, i)

\* C2: adjoint consistency in its per-pixel form: for L >= 2 and every pixel
\* i, the matrix Unit_Gradient2DMatrix(U, i) applied to U is Gradient2D(U, i).
C2_UnitMatrixGivesGradient ==
    (call.fn = "Unit_Gradient2DMatrix" /\ ~call.exits
        /\ IsSquare(Len(call.U)) /\ SqrtFloor(Len(call.U)) >= 2)
      => prod(call.ret, call.U) = Gradient2D(call.U, call.pixel)

\* C3: the direction returned by Onestep_Direction is the gradient g(u) of
\* the quadratic model.
C3_DirectionIsModelGradient ==
    call.fn = "Onestep_Direction"
      => call.ret = SpecDirection(call.A, call.U, call.B, call.W, call.NU, call.Lambda,
                                  call.beta, call.mu)

\* C4: the shrinkage identity: Shrike returns the zero pair exactly when
\* ||g|| <= 1/beta, the case ||g|| = 0 included and giving a finite value,
\* and (||g|| - 1/beta) g / ||g|| otherwise.
C4_ShrinkageIdentity ==
    call.fn = "Shrike" => call.ret = SpecShrink(call.DiUk, call.NUi, call.beta)

\* The updates logged so far in the running outer iteration include s.
HasDone(s) == \E i \in 1..Len(hist.order) : hist.order[i] = s

\* Every logged update follows the one the method puts before it: w opens
\* the iteration or follows u, u follows w, nu follows u, lambda follows nu,
\* growth follows lambda.
InMethodOrder(o) ==
    \A i \in 1..Len(o) :
        LET before == IF i = 1 THEN "start" ELSE o[i - 1]
        IN  CASE o[i] = "w"      -> before \in {"start", "u"}
              [] o[i] = "u"      -> before = "w"
              [] o[i] = "nu"     -> before = "u"
              [] o[i] = "lambda" -> before = "nu"
              [] o[i] = "growth" -> before = "lambda"

\* C5: within an outer iteration the updates occur in the order w, u (these
\* two alternating), nu, lambda, penalty growth; the nu and lambda updates
\* are computed from the u and w the inner minimisation returned and from
\* the beta and mu of before the iteration's penalty growth.
C5_UpdateOrder ==
    /\ InMethodOrder(hist.order)
    /\ HasDone("nu") =>
          /\ hist.nuFrom.beta = hist.betaAtStart
          /\ U = hist.ret.U /\ W = hist.ret.W
          /\ NU = MatSub(hist.nuFrom.NU,
                         MatScale(hist.betaAtStart,
                                  MatSub(Gradient2DMatrix(hist.ret.U), hist.ret.W)))
    /\ HasDone("lambda") =>
          /\ hist.lambdaFrom.mu = hist.muAtStart
          /\ Lambda = VecSub(hist.lambdaFrom.Lambda,
                             VecScale(hist.muAtStart, VecSub(prod(A, hist.ret.U), B)))
    /\ HasDone("growth") =>
          /\ hist.growthFrom.beta = hist.betaAtStart
          /\ hist.growthFrom.mu = hist.muAtStart

\* A solve of an image with pixels has returned after a whole outer iteration.
C5_Witness ==
    /\ pc = "done"
    /\ NumN >= 1
    /\ hist.order = <<"w", "u", "nu", "lambda", "growth">>

RECURSIVE CoefPower(_)
\* coef to the power k.
CoefPower(k) == IF k = 0 THEN Z(1) ELSE VMul(coef, CoefPower(k - 1))

\* The number of outer iterations whose penalty growth has been done.
GrowthsDone == hist.outer + (IF pc = "test" THEN 1 ELSE 0)

\* C6: the solve starts with beta = sqrt(2) and mu = 3; after k >= 1 penalty
\* growths mu = coef * beta and beta = coef^k * sqrt(2), so mu = 3 is in use
\* during the first outer iteration only.
C6_PenaltyGrowth ==
    /\ beta = VMul(CoefPower(GrowthsDone), beta0)
    /\ GrowthsDone = 0 => (beta = Fin(1, 1, 2) /\ mu = Z(3))
    /\ GrowthsDone >= 1 => (mu = VMul(coef, beta) /\ mu # mu0)
    /\ HasDone("growth") =>
          (beta = VMul(coef, hist.growthFrom.beta) /\ mu = VMul(coef, beta))

\* A solve has returned after an outer iteration that grew the penalties.
C6_Witness == pc = "done" /\ hist.outer = 1 /\ HasDone("growth") /\ mu = VMul(coef, beta)

C8_ReturnedImageIsFinite ==
    pc = "done" => \A i \in 1..Len(X.data) : IsFinite(X.data[i])

\* C9: Gradient2D and Unit_Gradient2DMatrix fail, returning nothing, when
\* pixel >= N and when N is not a perfect square.
C9_InvalidInputFails ==
    (call.fn \in {"Gradient2D", "Unit_Gradient2DMatrix"}
        /\ (call.pixel >= Len(call.U) \/ ~IsSquare(Len(call.U))))
      => call.exits

\* C10: from entry to return the solve works with the caller's forward
\* operator.
C10_CallerOperatorInUse == pc \in {"entry", "outer", "w_sub", "u_sub", "backtrack", "accept",
                                   "am_return", "nu", "lambda", "growth", "test", "finish",
                                   "done", "aborted"} => A = argA

\* x lies between a and b (in either order); false when a value is NaN.
Between(x, a, b) ==
    \/ LeDouble(a, x) /\ LeDouble(x, b)
    \/ LeDouble(b, x) /\ LeDouble(x, a)

\* C11: after every inner step P_k >= 1 and the new reference value C_k+1
\* lies between C_k and Q(u_k+1), so that every C_k stays between the least
\* and the greatest of C_0 and the values Q(u_j) seen so far.
C11_ReferenceBetweenValues ==
    (hist.inner >= 1 /\ pc # "aborted") =>
        /\ LeDouble(Z(1), am.Pk)
        /\ am.Pk = NextPk(hist.refFrom.Pk)
        /\ Between(am.C, hist.refFrom.C, hist.refFrom.Qk1)

---------------------------------------------------------------------------
(* Utility harness, src/src/ctvm_util.cpp: one helper is called, once, on  *)
(* arguments drawn from bounded sets.                                      *)

MaxRows == 2        \* raster arguments have 0..MaxRows rows
MaxCols == 3        \* and 0..MaxCols columns

CallMatrixToVector ==
    /\ call = NoCall
    /\ \E R \in 0..MaxRows : \E Cn \in 0..MaxCols : \E M \in BinaryMatrices(R, Cn) :
          call' = [fn |-> "MatrixToVector", AMatrix |-> M, ret |-> MatrixToVector(M)]
    /\ UNCHANGED solverVars

CallVectorToMatrix ==
    /\ call = NoCall
    /\ \E R \in 0..MaxRows : \E Cn \in 0..MaxCols : \E V \in Vectors(R * Cn, Bits) :
          call' = [fn |-> "VectorToMatrix", AVector |-> V, rows |-> R, cols |-> Cn,
                   ret |-> VectorToMatrix(V, R, Cn)]
    /\ UNCHANGED solverVars

\* C12: MatrixToVector(M) has length R*C with entry i + j*R equal to M(i, j),
\* VectorToMatrix(MatrixToVector(M), R, C) is M again, and
\* MatrixToVector(VectorToMatrix(V, R, C)) is V for V of length R*C.
C12_RasterRoundTrip ==
    /\ call.fn = "MatrixToVector" =>
          /\ Len(call.ret) = call.AMatrix.rows * call.AMatrix.cols
          /\ \A i \in 0..(call.AMatrix.rows - 1) : \A j \in 0..(call.AMatrix.cols - 1) :
                call.ret[i + j * call.AMatrix.rows + 1] = At(call.AMatrix, i, j)
          /\ VectorToMatrix(call.ret, call.AMatrix.rows, call.AMatrix.cols) = call.AMatrix
    /\ call.fn = "VectorToMatrix" =>
          /\ call.ret.rows = call.rows /\ call.ret.cols = call.cols
          /\ MatrixToVector(call.ret) = call.AVector

\* A 2 x 3 matrix that differs from its row-by-row reading has been rasterized.
C12_Witness ==
    /\ call.fn = "MatrixToVector"
    /\ call.AMatrix = [rows |-> 2, cols |-> 3,
                       data |-> <<Z(0), Z(1), Z(1), Z(0), Z(0), Z(1)>>]
    /\ call.ret = <<Z(0), Z(0), Z(1), Z(0), Z(1), Z(1)>>

\* std::max(a, b) is (a < b) ? b : a and std::min(a, b) is (b < a) ? b : a.
StdMax(a, b) == IF GtDouble(b, a) THEN b ELSE a
StdMin(a, b) == IF GtDouble(a, b) THEN b ELSE a

RECURSIVE MaxFrom(_, _)
\* The loop of MaximumEntry over the first k entries, MaxValue starting at 0.
MaxFrom(d, k) == IF k = 0 THEN Zero ELSE Eval2(StdMax, MaxFrom(d, k - 1), d[k])

RECURSIVE MinFrom(_, _)
\* The loop of MinimumEntry over the first k entries, MinValue starting at
\* +infinity.
MinFrom(d, k) == IF k = 0 THEN PInf ELSE Eval2(StdMin, MinFrom(d, k - 1), d[k])

MaximumEntry(AMatrix) == MaxFrom(AMatrix.data, Len(AMatrix.data))
MinimumEntry(AMatrix) == MinFrom(AMatrix.data, Len(AMatrix.data))

\* Lines 373-382: (AMatrix - min) / range when range != 0, else all ones.
Normalized(AMatrix, AMatrixMin, AMatrixRange) ==
    IF AMatrixRange # Zero
        THEN [AMatrix EXCEPT !.data =
                 MkSeq([x \in 1..Len(AMatrix.data) |->
                          DivDouble(SubDouble(AMatrix.data[x], AMatrixMin), AMatrixRange)],
                       Len(AMatrix.data))]
    ELSE ConstMatrix(AMatrix.rows, AMatrix.cols, Z(1))

NormalizeMatrix(AMatrix) ==
    Eval2(LAMBDA AMatrixMin, AMatrixMax :
            Normalized(AMatrix, AMatrixMin, SubDouble(AMatrixMax, AMatrixMin)),
          MinimumEntry(AMatrix), MaximumEntry(AMatrix))

MaxNormLen == 3     \* matrices handed to NormalizeMatrix have 1..MaxNormLen entries
MaxSigned  == 2     \* with values -MaxSigned..MaxSigned

SignedVals == {Z(e) : e \in (-MaxSigned)..MaxSigned}

\* Non-empty matrices, entries of either sign.
NormShapes == {sh \in (1..MaxNormLen) \X (1..MaxNormLen) : sh[1] * sh[2] <= MaxNormLen}
SignedMatrices ==
    UNION {{[rows |-> sh[1], cols |-> sh[2], data |-> v] :
               v \in Vectors(sh[1] * sh[2], SignedVals)} : sh \in NormShapes}

CallNormalizeMatrix ==
    /\ call = NoCall
    /\ \E M \in SignedMatrices :
          call' = [fn |-> "NormalizeMatrix", AMatrix |-> M, ret |-> NormalizeMatrix(M)]
    /\ UNCHANGED solverVars

CallMaximumEntry ==
    /\ call = NoCall
    /\ \E M \in SignedMatrices :
          call' = [fn |-> "MaximumEntry", AMatrix |-> M, ret |-> MaximumEntry(M)]
    /\ UNCHANGED solverVars

UtilNext ==
    \/ CallMatrixToVector
    \/ CallVectorToMatrix
    \/ CallNormalizeMatrix
    \/ CallMaximumEntry

\* The helpers of ctvm_util.cpp called one at a time.
UtilSpec == KernelInit /\ [][UtilNext]_vars

\* The largest and the least entry of a non-empty matrix.
LargestEntry(M) ==
    CHOOSE x \in {M.data[i] : i \in 1..Len(M.data)} :
        \A i \in 1..Len(M.data) : LeDouble(M.data[i], x)
LeastEntry(M) ==
    CHOOSE x \in {M.data[i] : i \in 1..Len(M.data)} :
        \A i \in 1..Len(M.data) : LeDouble(x, M.data[i])

\* spec.md 6: min-max normalization, the all-equal matrix mapped to all ones.
SpecNormalize(M) ==
    IF LargestEntry(M) = LeastEntry(M) THEN ConstMatrix(M.rows, M.cols, Z(1))
    ELSE [M EXCEPT !.data =
             [x \in 1..Len(M.data) |->
                DivDouble(SubDouble(M.data[x], LeastEntry(M)),
                          SubDouble(LargestEntry(M), LeastEntry(M)))]]

\* C13: for a non-empty matrix with entries of any sign NormalizeMatrix is
\* the min-max normalization (all ones when all entries are equal) and
\* MaximumEntry returns the largest entry.
C13_MinMaxNormalization ==
    /\ call.fn = "NormalizeMatrix" => call.ret = SpecNormalize(call.AMatrix)
    /\ call.fn = "MaximumEntry" => call.ret = LargestEntry(call.AMatrix)

\* C14: every store of the w-pass addresses a row < N and a column in
\* {0, 1} of w; after the pass row i of w is Shrike(Gradient2D(u_k, i),
\* nu_i, beta) for every pixel i, nu_i being the whole pair; and columns 0
\* and 1 of the returned matrix are this w.
C14_WPassRows ==
    /\ pc = "w_sub" => WSubLoop(NumN, am.W, am.Uk).fault = "none"
    /\ pc = "u_sub" =>
          \A i \in 0..(NumN - 1) :
              RowPair(am.W, i) = Shrike(Gradient2D(am.Uk, i), RowPair(NU, i), beta)
    /\ pc = "nu" => \A i \in 0..(NumN - 1) : RowPair(MIN, i) = RowPair(am.W, i)

\* C15: the step length an inner step starts its backtracking from is a
\* finite number: the quotient <s,y>/<y,y> when k > 0 and <y,y> # 0, a
\* finite default at the first inner step and whenever <y,y> = 0.
C15_SafeStepLength ==
    (pc = "backtrack" /\ hist.bt = 0) => IsFinite(am.alpha)

\* spec.md: the pixel term of Q(u) for pixel i,
\* -<nu_i, D_i u - w_i> + (beta/2) ||D_i u - w_i||^2.
SpecPixelTerm(Uv, Wm, NUm, b, i) ==
    LET d == VecSub(SpecGradient(Uv, i), RowPair(Wm, i))
    IN  VAdd(VSub(Zero, inner_prod(RowPair(NUm, i), d)),
             VMul(VDiv(b, Z(2)), inner_prod(d, d)))

\* spec.md: Q(u) = sum of the pixel terms - <lambda, Au - b> + (mu/2) ||Au - b||^2.
SpecQ(Am, Uv, Bv, Wm, NUm, Lv, b, m) ==
    LET r == VecSub(prod(Am, Uv), Bv)
    IN  VAdd(VSub(Sum([i \in 1..Len(Uv) |-> SpecPixelTerm(Uv, Wm, NUm, b, i - 1)]),
                  inner_prod(Lv, r)),
             VMul(VDiv(m, Z(2)), inner_prod(r, r)))

\* C16: U_Subfunction returns the quadratic model Q(u) of the spec, and its
\* copy loop reads and writes only the elements 0 and 1 of the pairs.
C16_QuadraticModelValue ==
    call.fn = "U_Subfunction" =>
        /\ ~call.outOfRange
        /\ call.ret = SpecQ(call.A, call.U, call.B, call.W, call.NU, call.Lambda,
                            call.beta, call.mu)

\* spec.md: the rows of the unit matrix of pixel p that are set: none for
\* p = N-1, row 0 alone for N-L <= p < N-1, row 1 alone for p = l*L-1 with
\* l in 1..L-1, both rows otherwise.
SpecUnitRows(L, p) ==
    LET N == L * L
    IN  IF p = N - 1 THEN {}
        ELSE IF N - L <= p /\ p < N - 1 THEN {0}
        ELSE IF \E l \in 1..(L - 1) : p = l * L - 1 THEN {1}
        ELSE {0, 1}

\* spec.md: a set row 0 holds +1 at p and -1 at p+1, a set row 1 holds +1 at
\* p and -1 at p+L; every other entry of the 2 x N matrix is 0.
SpecUnitMatrix(L, p) ==
    LET N == L * L
        entry(row, col) ==
            IF row \notin SpecUnitRows(L, p) THEN Zero
            ELSE IF col = p THEN Z(1)
            ELSE IF col = p + (IF row = 0 THEN 1 ELSE L) THEN Z(-1)
            ELSE Zero
    IN  [rows |-> 2, cols |-> N,
         data |-> [k \in 1..(2 * N) |-> entry((k - 1) \div N, (k - 1) % N)]]

\* C17: for an L x L image, L >= 2, and a pixel p < N the unit matrix is the
\* 2 x N matrix of the four cases of the spec, zero outside the set entries.
C17_UnitMatrixCases ==
    (/\ call.fn = "Unit_Gradient2DMatrix"
     /\ IsSquare(Len(call.U))
     /\ SqrtFloor(Len(call.U)) >= 2
     /\ call.pixel < Len(call.U)) =>
        /\ ~call.exits
        /\ call.ret = SpecUnitMatrix(SqrtFloor(Len(call.U)), call.pixel)

=============================================================================
